---- MODULE Spec2Model ----
(***************************************************************************)
(* Model of autopartial.py: the decorator `autopartial`, its placeholders  *)
(* (_Arg: _0_ .. _9_ and _kw_) and the deferred callables it produces.     *)
(*                                                                         *)
(* Callables are numbered.  Callable 0 is autopartial(f) for the decorated *)
(* target f.  Callable i > 0 is autopartial(new_f) for the closure new_f   *)
(* stored in heap[i]: it closes over the raw function `f` of the wrapper   *)
(* that created it (heap[i].target) and over that call's orig_args and     *)
(* orig_kwargs.                                                            *)
(***************************************************************************)
EXTENDS Integers, Sequences, FiniteSets, TLC

\* Most arguments (positional and keyword together) one user call supplies,
\* and most captured arguments held by all deferred callables together.
MaxSlots == 2

\* Concrete argument values, placeholder indices (_0_, _1_) and keyword
\* names the user calls draw from.
Values == {1, 2}
Indices == {0, 1}
Keys == {"b"}

\* The decorated functions: f of TestAutoPartial.setup and power of the
\* module docstring.
Targets == {"f", "power"}

VARIABLES
    fn,         \* the decorated target function
    heap,       \* heap[i]: the closure new_f behind deferred callable i
    last,       \* the user call just made and what came of it
    invoked     \* the target has been invoked at least once so far

vars == <<fn, heap, last, invoked>>

----------------------------------------------------------------------------
\* Python values.  A concrete value, a positional placeholder _Arg(i) and a
\* named placeholder _Arg(s) are records over different fields.
Val(v) == [val |-> v]
PosArg(i) == [pos |-> i]
KwArg(s) == [kw |-> s]
NoneVal == [none |-> TRUE]
KeyError == [error |-> "KeyError"]
TypeError == [error |-> "TypeError"]

Concrete == {Val(v) : v \in Values}
Placeholders == {PosArg(i) : i \in Indices} \cup {KwArg(s) : s \in Keys}
Arguments == Concrete \cup Placeholders

\* isinstance(x, _Arg)
IsArg(x) == "pos" \in DOMAIN x \/ "kw" \in DOMAIN x

IsError(x) == "error" \in DOMAIN x

\* Faulty variant of AnyArg: the keyword values are not scanned.
AnyArg_posonly(args, kwargs) ==
    \E j \in DOMAIN args : IsArg(args[j])

\* any([isinstance(arg, _Arg) ...]) or any([isinstance(kwarg, _Arg) ...])
AnyArg(args, kwargs) ==
    \/ \E j \in DOMAIN args : IsArg(args[j])
    \/ \E k \in DOMAIN kwargs : IsArg(kwargs[k])

\* Faulty variant of AllArgs: enumerate(args, 1), positions counted from 1.
AllArgs_onebased(args, kwargs) ==
    [pos |-> [i \in 1 .. Len(args) |-> args[i]], kw |-> kwargs]

\* all_args = kwargs.copy(); all_args.update(enumerate(args)): one mapping,
\* integer keys 0 .. len(args)-1 and string keys, kept here as two parts.
AllArgs(args, kwargs) ==
    [pos |-> [i \in 0 .. (Len(args) - 1) |-> args[i + 1]], kw |-> kwargs]

\* Faulty variant of get_value: args.get(self.index), None for a missing key.
get_value_default(self, all_args) ==
    IF "pos" \in DOMAIN self
    THEN IF self.pos \in DOMAIN all_args.pos THEN all_args.pos[self.pos] ELSE NoneVal
    ELSE IF self.kw \in DOMAIN all_args.kw THEN all_args.kw[self.kw] ELSE NoneVal

\* _Arg.get_value: args[self.index]; a missing key raises KeyError.
get_value(self, all_args) ==
    IF "pos" \in DOMAIN self
    THEN IF self.pos \in DOMAIN all_args.pos THEN all_args.pos[self.pos] ELSE KeyError
    ELSE IF self.kw \in DOMAIN all_args.kw THEN all_args.kw[self.kw] ELSE KeyError

\* orig_arg.get_value(all_args) if isinstance(orig_arg, _Arg) else orig_arg
Resolve(orig_arg, all_args) ==
    IF IsArg(orig_arg) THEN get_value(orig_arg, all_args) ELSE orig_arg

\* Faulty variant of new_args: the j-th captured argument, when it is a
\* placeholder, takes the j-th supplied argument whatever its index.
new_args_sequential(orig_args, all_args) ==
    [j \in 1 .. Len(orig_args) |->
        IF IsArg(orig_args[j])
        THEN IF (j - 1) \in DOMAIN all_args.pos THEN all_args.pos[j - 1] ELSE KeyError
        ELSE orig_args[j]]

new_args(orig_args, all_args) ==
    [j \in 1 .. Len(orig_args) |-> Resolve(orig_args[j], all_args)]

\* Faulty variant of new_kwargs: the keywords of the call that no captured
\* keyword names are passed on as well.
new_kwargs_merge(orig_kwargs, all_args) ==
    [k \in DOMAIN orig_kwargs \cup DOMAIN all_args.kw |->
        IF k \in DOMAIN orig_kwargs
        THEN Resolve(orig_kwargs[k], all_args)
        ELSE all_args.kw[k]]

new_kwargs(orig_kwargs, all_args) ==
    [k \in DOMAIN orig_kwargs |-> Resolve(orig_kwargs[k], all_args)]

----------------------------------------------------------------------------
\* The targets.  An outcome is how a call ended ("returned" or "raised"),
\* with what value, and the raw functions it invoked on the way, in order.
Invocation(id, args, kwargs) == [callee |-> id, args |-> args, kwargs |-> kwargs]

\* def f(*args, **kwargs): return args, kwargs
f(args, kwargs) ==
    [kind |-> "returned", value |-> [args |-> args, kwargs |-> kwargs]]

\* def power(a, b): return a**b.  Python binds the positional arguments to
\* a then b, then the keywords; an extra, duplicate, unknown or missing
\* argument is a TypeError raised by the call itself, and so is ** on an
\* operand that is no number.
power(args, kwargs) ==
    LET names == <<"a", "b">>
        given == {names[j] : j \in 1 .. (IF Len(args) < 2 THEN Len(args) ELSE 2)}
        bound(n) == IF n \in given
                    THEN args[CHOOSE j \in 1 .. 2 : names[j] = n]
                    ELSE kwargs[n]
    IN  IF \/ Len(args) > 2
           \/ \E k \in DOMAIN kwargs : k \notin {"a", "b"} \/ k \in given
           \/ \E n \in {"a", "b"} : n \notin given /\ n \notin DOMAIN kwargs
        THEN [kind |-> "raised", value |-> TypeError]
        ELSE IF "val" \in DOMAIN bound("a") /\ "val" \in DOMAIN bound("b")
             THEN [kind |-> "returned", value |-> Val(bound("a").val ^ bound("b").val)]
             ELSE [kind |-> "raised", value |-> TypeError]

target(t, args, kwargs) ==
    LET r == IF t = "f" THEN f(args, kwargs) ELSE power(args, kwargs)
    IN  [kind |-> r.kind, value |-> r.value, trace |-> <<Invocation(0, args, kwargs)>>]

\* Raw(h, t, id, ...) is the raw function behind callable id: the target t
\* for 0, the closure new_f stored in h[id] otherwise.  Its outcome carries
\* the closures as the call leaves them.
RECURSIVE Raw(_, _, _, _, _)

\* Faulty variant of new_f: it calls the decorated target, not the raw
\* function its wrapper closed over.
new_f_direct(h, t, id, args, kwargs) ==
    LET all_args == AllArgs(args, kwargs)
        na == new_args(h[id].args, all_args)
        nk == new_kwargs(h[id].kwargs, all_args)
        me == Invocation(id, args, kwargs)
    IN  IF \/ \E j \in DOMAIN na : IsError(na[j])
           \/ \E k \in DOMAIN nk : IsError(nk[k])
        THEN [kind |-> "raised", value |-> KeyError, trace |-> <<me>>, heap |-> h]
        ELSE LET r == Raw(h, t, 0, na, nk)
             IN  [kind |-> r.kind, value |-> r.value, trace |-> <<me>> \o r.trace,
                  heap |-> r.heap]

\* Faulty variant of new_f: an exception of the call it makes is caught and
\* None is returned.
new_f_catch(h, t, id, args, kwargs) ==
    LET all_args == AllArgs(args, kwargs)
        na == new_args(h[id].args, all_args)
        nk == new_kwargs(h[id].kwargs, all_args)
        me == Invocation(id, args, kwargs)
    IN  IF \/ \E j \in DOMAIN na : IsError(na[j])
           \/ \E k \in DOMAIN nk : IsError(nk[k])
        THEN [kind |-> "raised", value |-> KeyError, trace |-> <<me>>, heap |-> h]
        ELSE LET r == Raw(h, t, h[id].target, na, nk)
             IN  [kind |-> "returned",
                  value |-> IF r.kind = "raised" THEN NoneVal ELSE r.value,
                  trace |-> <<me>> \o r.trace,
                  heap |-> r.heap]

\* Faulty variant of new_f: the resolved values are written back into
\* orig_args and orig_kwargs.
new_f_inplace(h, t, id, args, kwargs) ==
    LET all_args == AllArgs(args, kwargs)
        na == new_args(h[id].args, all_args)
        nk == new_kwargs(h[id].kwargs, all_args)
        me == Invocation(id, args, kwargs)
    IN  IF \/ \E j \in DOMAIN na : IsError(na[j])
           \/ \E k \in DOMAIN nk : IsError(nk[k])
        THEN [kind |-> "raised", value |-> KeyError, trace |-> <<me>>, heap |-> h]
        ELSE LET r == Raw(h, t, h[id].target, na, nk)
             IN  [kind |-> r.kind, value |-> r.value, trace |-> <<me>> \o r.trace,
                  heap |-> [r.heap EXCEPT ![id].args = na, ![id].kwargs = nk]]

\* The body of new_f for the closure h[id].  It reads orig_args and
\* orig_kwargs and builds a new list and a new dict; `return f(...)` hands
\* on whatever f returns or raises.
new_f(h, t, id, args, kwargs) ==
    LET all_args == AllArgs(args, kwargs)
        na == new_args(h[id].args, all_args)
        nk == new_kwargs(h[id].kwargs, all_args)
        me == Invocation(id, args, kwargs)
    IN  IF \/ \E j \in DOMAIN na : IsError(na[j])
           \/ \E k \in DOMAIN nk : IsError(nk[k])
        THEN [kind |-> "raised", value |-> KeyError, trace |-> <<me>>, heap |-> h]
        ELSE LET r == Raw(h, t, h[id].target, na, nk)
             IN  [kind |-> r.kind, value |-> r.value, trace |-> <<me>> \o r.trace,
                  heap |-> r.heap]

Raw(h, t, id, args, kwargs) ==
    IF id = 0
    THEN LET r == target(t, args, kwargs)
         IN  [kind |-> r.kind, value |-> r.value, trace |-> r.trace, heap |-> h]
    ELSE new_f(h, t, id, args, kwargs)

\* Faulty variant of wrapped: the immediate path calls f(*orig_args) and
\* leaves the keyword arguments out.
wrapped_nokw(h, t, id, orig_args, orig_kwargs) ==
    IF AnyArg(orig_args, orig_kwargs)
    THEN [kind |-> "deferred",
          value |-> [callable |-> Len(h) + 1],
          trace |-> <<>>,
          heap |-> Append(h, [target |-> id, args |-> orig_args, kwargs |-> orig_kwargs])]
    ELSE Raw(h, t, id, orig_args, [k \in {} |-> NoneVal])

\* Faulty variant of wrapped: all() where the code has any(), so a call that
\* mixes placeholders and concrete values is not deferred.
wrapped_all(h, t, id, orig_args, orig_kwargs) ==
    IF /\ DOMAIN orig_args # {} \/ DOMAIN orig_kwargs # {}
       /\ \A j \in DOMAIN orig_args : IsArg(orig_args[j])
       /\ \A k \in DOMAIN orig_kwargs : IsArg(orig_kwargs[k])
    THEN [kind |-> "deferred",
          value |-> [callable |-> Len(h) + 1],
          trace |-> <<>>,
          heap |-> Append(h, [target |-> id, args |-> orig_args, kwargs |-> orig_kwargs])]
    ELSE Raw(h, t, id, orig_args, orig_kwargs)

\* wrapped(*orig_args, **orig_kwargs) of callable id: with a placeholder
\* among the arguments it returns autopartial(new_f), a new callable whose
\* closure holds f (the raw function of callable id), orig_args and
\* orig_kwargs; otherwise it returns f(*orig_args, **orig_kwargs).
wrapped(h, t, id, orig_args, orig_kwargs) ==
    IF AnyArg(orig_args, orig_kwargs)
    THEN [kind |-> "deferred",
          value |-> [callable |-> Len(h) + 1],
          trace |-> <<>>,
          heap |-> Append(h, [target |-> id, args |-> orig_args, kwargs |-> orig_kwargs])]
    ELSE Raw(h, t, id, orig_args, orig_kwargs)

----------------------------------------------------------------------------
\* User calls.
ArgLists(S, n) == UNION {[1 .. m -> S] : m \in 0 .. n}
KwArgs(S) == UNION {[K -> S] : K \in SUBSET Keys}

Slots(args, kwargs) == Len(args) + Cardinality(DOMAIN kwargs)

RECURSIVE HeapSlots(_)
HeapSlots(h) ==
    IF h = <<>> THEN 0
    ELSE Slots(h[Len(h)].args, h[Len(h)].kwargs) + HeapSlots(SubSeq(h, 1, Len(h) - 1))

Callables == 0 .. Len(heap)

\* The user put a placeholder among the arguments of the call.
HasPlaceholder(args, kwargs) ==
    \/ \E j \in DOMAIN args : args[j] \in Placeholders
    \/ \E k \in DOMAIN kwargs : kwargs[k] \in Placeholders

NoCall == [kind |-> "none"]

Record(id, args, kwargs, r) ==
    [kind |-> r.kind, callee |-> id, args |-> args, kwargs |-> kwargs,
     value |-> r.value, trace |-> r.trace]

TargetCalls(trace) == {j \in DOMAIN trace : trace[j].callee = 0}

Init ==
    /\ fn \in Targets
    /\ heap = <<>>
    /\ last = NoCall
    /\ invoked = FALSE

\* The user calls callable id; the call runs to its end before the next.
Call(id, args, kwargs) ==
    /\ last = NoCall
    /\ LET r == wrapped(heap, fn, id, args, kwargs)
       IN  /\ heap' = r.heap
           /\ last' = Record(id, args, kwargs, r)
           /\ invoked' = (invoked \/ TargetCalls(r.trace) # {})
    /\ UNCHANGED fn

\* A call with a placeholder among its arguments.
Deferral ==
    \E id \in Callables :
        \E args \in ArgLists(Arguments, MaxSlots - HeapSlots(heap)) :
            \E kwargs \in KwArgs(Arguments) :
                /\ HasPlaceholder(args, kwargs)
                /\ HeapSlots(heap) + Slots(args, kwargs) <= MaxSlots
                /\ Call(id, args, kwargs)

\* A call without placeholders.
Immediate ==
    \E id \in Callables :
        \E args \in ArgLists(Concrete, MaxSlots) :
            \E kwargs \in KwArgs(Concrete) :
                /\ Slots(args, kwargs) <= MaxSlots
                /\ Call(id, args, kwargs)

\* The caller is done with the result of the last call.
Forget ==
    /\ last # NoCall
    /\ last' = NoCall
    /\ UNCHANGED <<fn, heap, invoked>>

Next == Deferral \/ Immediate \/ Forget

Spec == Init /\ [][Next]_vars

----------------------------------------------------------------------------
\* What the properties below talk about.

\* The last user call was placeholder-free, resp. carried a placeholder.
ConcreteCall == last.kind # "none" /\ ~HasPlaceholder(last.args, last.kwargs)
PlaceholderCall == last.kind # "none" /\ HasPlaceholder(last.args, last.kwargs)

\* The call (args, kwargs) binds placeholder x: a position below len(args),
\* or a key among the keywords.
Binds(x, args, kwargs) ==
    IF "pos" \in DOMAIN x THEN x.pos < Len(args) ELSE x.kw \in DOMAIN kwargs

BindsAll(c, args, kwargs) ==
    /\ \A j \in DOMAIN c.args :
          c.args[j] \in Placeholders => Binds(c.args[j], args, kwargs)
    /\ \A k \in DOMAIN c.kwargs :
          c.kwargs[k] \in Placeholders => Binds(c.kwargs[k], args, kwargs)

\* The substitution rule: a positional placeholder with index i becomes
\* args[i] (0-based), a named placeholder with key k becomes kwargs[k], any
\* other value stays.
Substitute(x, args, kwargs) ==
    IF x \notin Placeholders THEN x
    ELSE IF "pos" \in DOMAIN x THEN args[x.pos + 1] ELSE kwargs[x.kw]

SubstArgs(c, args, kwargs) ==
    [j \in 1 .. Len(c.args) |-> Substitute(c.args[j], args, kwargs)]

SubstKwargs(c, args, kwargs) ==
    [k \in DOMAIN c.kwargs |-> Substitute(c.kwargs[k], args, kwargs)]

\* The last call ended as the target ends on (args, kwargs).
EndsAsTarget(args, kwargs) ==
    /\ last.kind = target(fn, args, kwargs).kind
    /\ last.value = target(fn, args, kwargs).value

\* C1: a placeholder-free call of autopartial(f) invokes f exactly once, with
\* exactly the positional and keyword arguments of the call, and ends with
\* f's result.
C1_ImmediateDispatch ==
    (ConcreteCall /\ last.callee = 0) =>
        /\ last.trace = <<Invocation(0, last.args, last.kwargs)>>
        /\ EndsAsTarget(last.args, last.kwargs)

C1_Witness ==
    /\ ConcreteCall
    /\ last.callee = 0
    /\ last.kind = "returned"
    /\ Len(last.args) = 1
    /\ DOMAIN last.kwargs = {"b"}
    /\ last.args[1] # last.kwargs["b"]

\* C2: a call with a placeholder among its positional arguments or keyword
\* values, on callable 0 or on any deferred callable, returns a new callable
\* and invokes nothing: the target stays uninvoked if it was.
C2_DeferralNeverInvokes ==
    [][(last = NoCall /\ last' # NoCall /\ HasPlaceholder(last'.args, last'.kwargs)) =>
          /\ last'.kind = "deferred"
          /\ last'.trace = <<>>
          /\ invoked' = invoked
          /\ Len(heap') = Len(heap) + 1
          /\ last'.value = [callable |-> Len(heap')]
          /\ heap'[Len(heap')] =
                [target |-> last'.callee, args |-> last'.args, kwargs |-> last'.kwargs]]_vars

C2_Witness ==
    /\ PlaceholderCall
    /\ last.kind = "deferred"
    /\ Len(heap) = 2
    /\ heap[2].target = 1
    /\ last.callee = 1
    /\ ~invoked

\* C3: for h = autopartial(f)(*A, **K), a placeholder-free call of h that
\* binds every placeholder of A and K invokes f exactly once, with A and K
\* substituted by the rule and their order and keys kept, and ends with f's
\* result.
C3_Resolution ==
    \A id \in DOMAIN heap :
        (/\ ConcreteCall
         /\ last.callee = id
         /\ heap[id].target = 0
         /\ BindsAll(heap[id], last.args, last.kwargs)) =>
            LET A1 == SubstArgs(heap[id], last.args, last.kwargs)
                K1 == SubstKwargs(heap[id], last.args, last.kwargs)
            IN  /\ last.trace = <<Invocation(id, last.args, last.kwargs),
                                  Invocation(0, A1, K1)>>
                /\ EndsAsTarget(A1, K1)

C3_Witness ==
    /\ ConcreteCall
    /\ last.callee = 1
    /\ last.kind = "returned"
    /\ heap[1] = [target |-> 0, args |-> <<PosArg(1)>>, kwargs |-> [k \in {"b"} |-> PosArg(0)]]
    /\ last.args = <<Val(1), Val(2)>>

\* C4: a placeholder-free invocation of a deferred callable (by the user,
\* or by an outer deferred callable that resolved to it) that leaves a
\* captured placeholder unbound raises the lookup error: nothing is
\* substituted for it, nothing further is invoked, the target least of all,
\* and the user's call ends with that error.
C4_MissingBinding ==
    ConcreteCall =>
        \A j \in DOMAIN last.trace :
            LET got == last.trace[j]
            IN  (got.callee # 0 /\ ~BindsAll(heap[got.callee], got.args, got.kwargs)) =>
                    /\ j = Len(last.trace)
                    /\ last.kind = "raised"
                    /\ last.value = KeyError
                    /\ \A i \in DOMAIN last.trace : last.trace[i].callee # 0

C4_Witness ==
    /\ ConcreteCall
    /\ last.callee = 1
    /\ last.kind = "raised"
    /\ heap[1].args = <<Val(1), PosArg(1)>>
    /\ last.args = <<Val(2)>>

\* C5: for h = autopartial(f)(*A1, **K1) and h2 = h(*A2, **K2), a
\* placeholder-free call of h2 resolves (A2, K2) against the call, then
\* (A1, K1) against those resolved values, and invokes f exactly once with
\* the outcome.
C5_ChainedRounds ==
    \A id \in DOMAIN heap :
        (/\ ConcreteCall
         /\ last.callee = id
         /\ heap[id].target # 0
         /\ heap[heap[id].target].target = 0
         /\ BindsAll(heap[id], last.args, last.kwargs)) =>
            LET h == heap[id].target
                A2 == SubstArgs(heap[id], last.args, last.kwargs)
                K2 == SubstKwargs(heap[id], last.args, last.kwargs)
            IN  BindsAll(heap[h], A2, K2) =>
                    LET A1 == SubstArgs(heap[h], A2, K2)
                        K1 == SubstKwargs(heap[h], A2, K2)
                    IN  /\ last.trace = <<Invocation(id, last.args, last.kwargs),
                                          Invocation(h, A2, K2),
                                          Invocation(0, A1, K1)>>
                        /\ EndsAsTarget(A1, K1)

\* The rename round trip of the docstring: a positional slot of f renamed to
\* keyword b, then b renamed back to position 0.
C5_Witness ==
    /\ ConcreteCall
    /\ last.callee = 2
    /\ last.kind = "returned"
    /\ heap[1] = [target |-> 0, args |-> <<KwArg("b")>>, kwargs |-> [k \in {} |-> NoneVal]]
    /\ heap[2] = [target |-> 1, args |-> <<>>, kwargs |-> [k \in {"b"} |-> PosArg(0)]]
    /\ last.trace[3].args = last.args

\* C6: within one invocation of a deferred callable, every occurrence of the
\* same placeholder among the captured positional arguments and keyword
\* values is replaced by the same bound value.
C6_PlaceholderReuse ==
    \A id \in DOMAIN heap :
        (/\ ConcreteCall
         /\ last.callee = id
         /\ BindsAll(heap[id], last.args, last.kwargs)) =>
            /\ Len(last.trace) >= 2
            /\ LET c == heap[id]
                   got == last.trace[2]
               IN  /\ \A i, j \in DOMAIN c.args :
                          (c.args[i] \in Placeholders /\ c.args[i] = c.args[j]) =>
                              got.args[i] = got.args[j]
                   /\ \A i \in DOMAIN c.args : \A k \in DOMAIN c.kwargs :
                          (c.args[i] \in Placeholders /\ c.args[i] = c.kwargs[k]) =>
                              got.args[i] = got.kwargs[k]
                   /\ \A k, m \in DOMAIN c.kwargs :
                          (c.kwargs[k] \in Placeholders /\ c.kwargs[k] = c.kwargs[m]) =>
                              got.kwargs[k] = got.kwargs[m]

C6_Witness ==
    /\ ConcreteCall
    /\ last.callee = 1
    /\ heap[1].args = <<PosArg(0)>>
    /\ DOMAIN heap[1].kwargs = {"b"}
    /\ heap[1].kwargs["b"] = PosArg(0)
    /\ last.args = <<Val(2), Val(1)>>
    /\ last.trace[2].args = <<Val(2)>>
    /\ last.trace[2].kwargs["b"] = Val(2)

\* C7: when the target, invoked on the immediate path or through any number
\* of deferred callables, raises, the user's call ends with that same error.
C7_TargetErrorPassesThrough ==
    (ConcreteCall /\ last.trace # <<>> /\ last.trace[Len(last.trace)].callee = 0) =>
        LET got == last.trace[Len(last.trace)]
            r == target(fn, got.args, got.kwargs)
        IN  r.kind = "raised" => (last.kind = "raised" /\ last.value = r.value)

C7_Witness ==
    /\ ConcreteCall
    /\ Len(last.trace) = 3
    /\ last.trace[3].callee = 0
    /\ last.kind = "raised"
    /\ last.value = TypeError

\* C8: no call changes the captured arguments of a deferred callable: every
\* closure stays as it was made, placeholders included.
C8_CapturedNeverMutated ==
    [][\A i \in DOMAIN heap :
          /\ i \in DOMAIN heap'
          /\ heap'[i] = heap[i]
          /\ HasPlaceholder(heap'[i].args, heap'[i].kwargs)]_vars

\* A deferred callable has failed on a missing binding after an earlier
\* call had run through to the target.
C8_Witness ==
    /\ ConcreteCall
    /\ last.callee = 1
    /\ Len(heap) = 1
    /\ last.kind = "raised"
    /\ last.value = KeyError
    /\ invoked
    /\ HasPlaceholder(heap[1].args, heap[1].kwargs)

\* C9: the target and every closure new_f are only ever invoked with
\* positional arguments and keyword values none of which is a placeholder.
C9_NoPlaceholderReachesCallee ==
    last.kind # "none" =>
        \A j \in DOMAIN last.trace :
            ~HasPlaceholder(last.trace[j].args, last.trace[j].kwargs)

C9_Witness ==
    /\ ConcreteCall
    /\ Len(last.trace) = 3
    /\ Len(heap) = 2
    /\ heap[2].kwargs # [k \in {} |-> NoneVal]

\* C10: a placeholder-free call of a deferred callable with captured (A, K)
\* that binds every captured placeholder hands its callee exactly len(A)
\* positional arguments and exactly the keywords of K, however many arguments
\* the call supplied; the unused ones raise nothing.
C10_ShapeFixedByCapture ==
    \A id \in DOMAIN heap :
        (/\ ConcreteCall
         /\ last.callee = id
         /\ BindsAll(heap[id], last.args, last.kwargs)) =>
            /\ Len(last.trace) >= 2
            /\ last.trace[2].callee = heap[id].target
            /\ Len(last.trace[2].args) = Len(heap[id].args)
            /\ DOMAIN last.trace[2].kwargs = DOMAIN heap[id].kwargs

C10_Witness ==
    /\ ConcreteCall
    /\ last.callee = 1
    /\ heap[1].target = 0
    /\ heap[1].args = <<PosArg(0)>>
    /\ DOMAIN heap[1].kwargs = {}
    /\ Len(last.args) = 1
    /\ DOMAIN last.kwargs = {"b"}
    /\ last.kind = "returned"

====
